---- MODULE Spec2Model ----
(***************************************************************************)
(* A model of two parts of dbsake:                                         *)
(*   - dbsake.mysqldumpsplit.split_mysqldump, the driver that routes the   *)
(*     sections of a mysqldump stream to files (specification Spec);       *)
(*   - dbsake.mysqlfrm.binaryfrm.parse, the decoder of binary .frm files   *)
(*     (specification SpecFrm).                                            *)
(* Text is modelled as a sequence of lines; a line is a record             *)
(*   [k: what the line is, a: the identifier it carries, e: the engine of  *)
(*    a CREATE TABLE, c: the clauses of a CREATE/ALTER TABLE, n: a serial  *)
(*    that makes the lines of different sections differ].                  *)
(* Joining lines ('' .join) is concatenation of such sequences.            *)
(***************************************************************************)
EXTENDS Integers, Sequences, FiniteSets, TLC

VARIABLES
  \* ---- split_mysqldump ----
  target,            \* the target argument
  cmd,               \* filter_command, as its words
  regex,             \* the regex argument
  pc,                \* "start" | "loop" | "done" | "crashed"
  defer_indexes,
  defer_constraints,
  warnings,          \* what logging.warn was given
  header,            \* the header text, NoHeader while None
  db,                \* the local db, UNBOUND before its first assignment
  post_data,         \* the pending ALTER, NoneLine while None
  table_count,
  database_count,
  view_count,
  files,             \* the output directory: path -> the blobs the file holds
  dump,              \* the sections the tokenizer has yielded so far
  consumed,          \* lines taken from the iterator of the last section
  writes,            \* the calls of output() so far
  error,             \* the exception that ended the run, NoError otherwise
  retval,            \* what split_mysqldump returned, -1 before it returns
  \* ---- binaryfrm.parse ----
  frm                \* the state of one parse(path) call

splitvars == <<target, cmd, regex, pc, defer_indexes, defer_constraints,
               warnings, header, db, post_data, table_count, database_count,
               view_count, files, dump, consumed, writes, error, retval>>
vars == <<splitvars, frm>>

----------------------------------------------------------------------------
(* Bounds and input alphabets of the dump splitter *)

\* sections read after the first header
MaxSections == 3

Targets == {"5.5", "5.6", "5.7", "4.1"}
Cmds == {<<"gzip", "-1">>, <<"cat">>}
Regexes == {".*", "^(?!.*t2)", "[.]data[.]sql"}
Dbs == {"d1", "d2"}
Tables == {"t1", "t2"}

UNBOUND == "<unbound>"

Line(k, a, e, c, n) == [k |-> k, a |-> a, e |-> e, c |-> c, n |-> n]
Text(k, n) == Line(k, "", "", <<>>, n)
NoneLine == Text("None", 0)
NoHeader == <<NoneLine>>
NoError == [exc |-> "", what |-> "", section |-> ""]

\* A CREATE TABLE statement: the engine of its options tail and its clauses.
DDLShapes ==
  { [e |-> "MyISAM", c |-> <<"COLUMN", "PRIMARY KEY", "KEY">>],
    [e |-> "InnoDB", c |-> <<"COLUMN", "PRIMARY KEY", "KEY", "FOREIGN KEY">>],
    [e |-> "InnoDB", c |-> <<"COLUMN", "PRIMARY KEY", "FOREIGN KEY">>] }

\* What the "Database: " part of the header's Host line may hold; NoHostLine is
\* a header without such a line.
NoHostLine == "<no host line>"
HeaderDbs == {NoHostLine, "", "d1"}

----------------------------------------------------------------------------
(* The tokenizer's sections: (section_type, lines).  n is the section's place *)
(* in the dump; it numbers the section's body lines.                          *)

Marker(kind) ==
  CASE kind = "replication_info" ->
         "-- Position to start replication or point-in-time recovery from"
    [] kind = "schema" -> "-- Current Database:"
    [] kind = "table_definition" -> "-- Table structure for table"
    [] kind = "table_data" -> "-- Dumping data for table"
    [] kind = "view_temporary_definition" -> "-- Temporary view structure for view"
    [] kind = "view_definition" -> "-- Final view structure for view"
    [] kind = "schema_routines" -> "-- Dumping routines for database"
    [] kind = "schema_events" -> "-- Dumping events for database"
    [] OTHER -> "-- other"

\* "--", the marker comment with its identifier, "--"
Comments(kind, ident, n) ==
  << Text("--", n), Line(Marker(kind), ident, "", <<>>, n), Text("--", n) >>

HeaderSection(hdb, n) ==
  [kind |-> "header",
   lines |-> << Text("-- MySQL dump", n) >>
             \o (IF hdb = NoHostLine THEN << >>
                 ELSE << Line("-- Host: localhost    Database: ", hdb, "", <<>>, n) >>)
             \o << Text("-- Server version", n) >>]

PlainSection(kind, ident, n) ==
  [kind |-> kind, lines |-> Comments(kind, ident, n) \o << Text("body", n) >>]

TableDefinitionSection(t, shape, n) ==
  [kind |-> "table_definition",
   lines |-> Comments("table_definition", t, n)
             \o << Text("DROP TABLE IF EXISTS", n),
                   Line("CREATE TABLE", t, shape.e, shape.c, n),
                   Text("/*!40101 SET character_set_client */", n) >>]

TableDataSection(t, n) ==
  [kind |-> "table_data",
   lines |-> Comments("table_data", t, n)
             \o << Text("LOCK TABLES", n), Line("INSERT INTO", t, "", <<>>, n) >>]

OtherSection(kind, n) ==
  [kind |-> kind, lines |-> << Text("--", n), Text("body", n) >>]

----------------------------------------------------------------------------
(* Helpers of the driver *)

\* cmd_to_ext: the extension the first word of the command picks
cmd_to_ext(c) ==
  LET name == c[1]
  IN  CASE name \in {"gzip", "pigz"} -> ".gz"
        [] name \in {"bzip2", "pbzip2"} -> ".bz2"
        [] name = "lzop" -> ".lzo"
        [] name = "xz" -> ".xz"
        [] name = "lzma" -> ".lzma"
        [] OTHER -> ""

\* os.path.join(directory, db, base + suffix); the directory is the same for
\* every path and is left out.
Path(d, base, suffix) == [db |-> d, base |-> base, suffix |-> suffix]

Names ==
  { Path("", "replication_info", ".sql") }
  \cup { Path(d, b, ".sql") : d \in Dbs, b \in {"create", "routines", "events", "views"} }
  \cup { Path(d, t, s) : d \in Dbs, t \in Tables, s \in {".schema.sql", ".data.sql"} }

Exts == { cmd_to_ext(c) : c \in Cmds } \cup {""}
File(name, ext) == [name |-> name, ext |-> ext]
AllFiles == { File(nm, x) : nm \in Names, x \in Exts }

\* What a file of an earlier run holds.
StaleBlob == [filter |-> <<"earlier run">>, data |-> <<>>]

\* filter_cre.search(name), for the regexes of Regexes
Search(re, name) ==
  CASE re = ".*" -> TRUE
    [] re = "^(?!.*t2)" -> name.base # "t2"
    [] re = "[.]data[.]sql" -> name.suffix = ".data.sql"
    [] OTHER -> FALSE

\* output(cmd, name, iterable, mode): open(name + ext, mode) and the items
\* written through the filter command into it.
output(fs, c, name, data, mode) ==
  LET f == File(name, cmd_to_ext(c))
      blob == [filter |-> c, data |-> data]
  IN  IF mode = "wb" THEN [fs EXCEPT ![f] = << blob >>]
      ELSE [fs EXCEPT ![f] = Append(@, blob)]

\* chain_header with the header left out
chain_header_dropped(h, lines) == lines

\* itertools.chain([header], iterator): what is written is the header, then
\* the lines
chain_header(h, lines) == h \o lines

\* filtered_output with the regex not consulted
filtered_output_always(fs, re, c, name, data) == output(fs, c, name, data, "wb")

\* Lines 112-117 and 136-141: the section is written when the regex finds a
\* match in its path, and only drained otherwise
filtered_output(fs, re, c, name, data) ==
  IF Search(re, name) THEN output(fs, c, name, data, "wb") ELSE fs

\* open(name, 'wb').close()
truncate(fs, name) == [fs EXCEPT ![File(name, "")] = << >>]

\* parser.extract_identifier: the identifier between the last pair of backticks
extract_identifier(line) == line.a

\* defer.extract_create_table: the CREATE TABLE statement of a block
extract_create_table(block) ==
  SelectSeq(block, LAMBDA l : l.k = "CREATE TABLE")

\* 'ENGINE=InnoDB' in table_ddl
HasInnoDB(ddl) == \E i \in 1..Len(ddl) : ddl[i].e = "InnoDB"

Deferred(clause, constraints) ==
  \/ clause = "KEY"
  \/ constraints /\ clause = "FOREIGN KEY"

\* defer.split_indexes(ddl, defer_constraints): (alter_table, create_table);
\* alter_table is NoneLine when no clause is deferred.
split_indexes(ddl, constraints) ==
  LET stmt == ddl[1]
      moved == SelectSeq(stmt.c, LAMBDA cl : Deferred(cl, constraints))
      kept == SelectSeq(stmt.c, LAMBDA cl : ~Deferred(cl, constraints))
  IN  IF ddl = << >> \/ moved = << >> THEN << NoneLine, ddl >>
      ELSE << Line("ALTER TABLE", stmt.a, "", moved, 0),
              << [stmt EXCEPT !.c = kept] >> >>

\* str.replace(old, new) on a block, old being one statement
Replace(block, old, new) ==
  IF old = << >> THEN block
  ELSE [i \in 1..Len(block) |-> IF block[i] = old[1] THEN new[1] ELSE block[i]]

\* re.search('Database: (?P<schema>.*)$', header, re.M): the schema group of
\* the first line that matches, NoHostLine when none does.
HeaderSchema(h) ==
  LET hits == SelectSeq(h, LAMBDA l : l.k = "-- Host: localhost    Database: ")
  IN  IF hits = << >> THEN NoHostLine ELSE hits[1].a

post_data_header == Text("-- InnoDB Fast Index Creation (generated by dbsake)", 0)
Newline == Text("", 0)

----------------------------------------------------------------------------
(* split_mysqldump *)

\* TargetFlags with an unknown target handled as 5.5 is
TargetFlags_unknown_as_55(t) ==
  IF t \in {"5.6", "5.7"} THEN << TRUE, TRUE, FALSE >>
  ELSE << TRUE, FALSE, FALSE >>

\* The flags the target picks: <<defer_indexes, defer_constraints, warned>>
TargetFlags(t) ==
  IF t = "5.5" THEN << TRUE, FALSE, FALSE >>
  ELSE IF t \in {"5.6", "5.7"} THEN << TRUE, TRUE, FALSE >>
  ELSE << FALSE, FALSE, TRUE >>

SplitIdle ==
  /\ target = "5.5" /\ cmd = <<"cat">> /\ regex = ".*" /\ pc = "idle"
  /\ defer_indexes = FALSE /\ defer_constraints = FALSE /\ warnings = << >>
  /\ header = NoHeader /\ db = UNBOUND /\ post_data = NoneLine
  /\ table_count = 0 /\ database_count = 0 /\ view_count = 0
  /\ files = [f \in AllFiles |-> << >>]
  /\ dump = << >> /\ consumed = 0 /\ writes = << >>
  /\ error = NoError /\ retval = -1

FrmIdle == frm = [pc |-> "idle"]

\* The call: the arguments, and an output directory that an earlier run filled.
Init ==
  /\ target \in Targets
  /\ cmd \in Cmds
  /\ regex \in Regexes
  /\ pc = "start"
  /\ defer_indexes = FALSE
  /\ defer_constraints = FALSE
  /\ warnings = << >>
  /\ header = NoHeader
  /\ db = UNBOUND
  /\ post_data = NoneLine
  /\ table_count = 0
  /\ database_count = 0
  /\ view_count = 0
  /\ files = [f \in AllFiles |-> << StaleBlob >>]
  /\ dump = << >>
  /\ consumed = 0
  /\ writes = << >>
  /\ error = NoError
  /\ retval = -1
  /\ FrmIdle

\* Lines 51-73: the flags of the target, the locals of the loop.
Start ==
  /\ pc = "start"
  /\ defer_indexes' = TargetFlags(target)[1]
  /\ defer_constraints' = TargetFlags(target)[2]
  /\ warnings' = IF TargetFlags(target)[3]
                 THEN << <<"Unknown target version", target>>,
                         <<"Indexes will not be deferred", "">> >>
                 ELSE << >>
  /\ pc' = "loop"
  /\ UNCHANGED << target, cmd, regex, header, db, post_data, table_count,
                  database_count, view_count, files, dump, consumed, writes,
                  error, retval, frm >>

\* The tokenizer yields the header at the top of the dump, and at most
\* MaxSections sections after it.
MoreSections == pc = "loop" /\ Len(dump) >= 1 /\ Len(dump) < MaxSections + 1
NextSerial == Len(dump) + 1

\* The record of one output() call.
Write(sec, name, mode, data, alter) ==
  [sec |-> NextSerial, kind |-> sec.kind, name |-> name, mode |-> mode,
   data |-> data, alter |-> alter]

\* os.path.join(directory, db, ...) with db unbound: UnboundLocalError.  taken
\* is the number of lines the handler took from the iterator before it.
NoDb(sec, taken) ==
  /\ db = UNBOUND
  /\ pc' = "crashed"
  /\ error' = [exc |-> "UnboundLocalError", what |-> "db", section |-> ""]
  /\ dump' = Append(dump, sec)
  /\ consumed' = taken
  /\ UNCHANGED << target, cmd, regex, defer_indexes, defer_constraints,
                  warnings, header, db, post_data, table_count,
                  database_count, view_count, files, writes, retval, frm >>

\* Lines 142-148
Header ==
  /\ pc = "loop" /\ Len(dump) < MaxSections + 1
  /\ \E hdb \in HeaderDbs :
       LET sec == HeaderSection(hdb, NextSerial)
           h == sec.lines
           schema == HeaderSchema(h)
           found == schema # NoHostLine /\ schema # ""
       IN  /\ header' = h
           /\ db' = IF found THEN schema ELSE db
           /\ database_count' = IF found THEN database_count + 1 ELSE database_count
           /\ dump' = Append(dump, sec)
           /\ consumed' = Len(sec.lines)
  /\ UNCHANGED << target, cmd, regex, pc, defer_indexes, defer_constraints,
                  warnings, post_data, table_count, view_count, files, writes,
                  error, retval, frm >>

\* Lines 75-78
ReplicationInfo ==
  /\ MoreSections
  /\ LET sec == PlainSection("replication_info", "", NextSerial)
         name == Path("", "replication_info", ".sql")
         data == chain_header(header, sec.lines)
     IN  /\ files' = output(files, cmd, name, data, "wb")
         /\ writes' = Append(writes, Write(sec, name, "wb", data, NoneLine))
         /\ dump' = Append(dump, sec)
         /\ consumed' = Len(sec.lines)
  /\ UNCHANGED << target, cmd, regex, pc, defer_indexes, defer_constraints,
                  warnings, header, db, post_data, table_count, database_count,
                  view_count, error, retval, frm >>

\* Lines 79-85
Schema ==
  /\ MoreSections
  /\ \E d \in Dbs :
       LET sec == PlainSection("schema", d, NextSerial)
           lines == sec.lines
           newdb == extract_identifier(lines[2])
           name == Path(newdb, "create", ".sql")
           data == chain_header(header, lines)
       IN  /\ db' = newdb
           /\ files' = output(files, cmd, name, data, "wb")
           /\ writes' = Append(writes, Write(sec, name, "wb", data, NoneLine))
           /\ database_count' = database_count + 1
           /\ dump' = Append(dump, sec)
           /\ consumed' = Len(lines)
  /\ UNCHANGED << target, cmd, regex, pc, defer_indexes, defer_constraints,
                  warnings, header, post_data, table_count, view_count, error,
                  retval, frm >>

\* Lines 86-92: schema_routines and schema_events
SchemaPart(kind, base) ==
  /\ MoreSections
  /\ LET sec == PlainSection(kind, "", NextSerial)
     IN  \/ NoDb(sec, 0)
         \/ /\ db # UNBOUND
            /\ LET name == Path(db, base, ".sql")
                   data == chain_header(header, sec.lines)
               IN  /\ files' = output(files, cmd, name, data, "wb")
                   /\ writes' = Append(writes, Write(sec, name, "wb", data, NoneLine))
            /\ dump' = Append(dump, sec)
            /\ consumed' = Len(sec.lines)
            /\ UNCHANGED << target, cmd, regex, pc, defer_indexes,
                            defer_constraints, warnings, header, db, post_data,
                            table_count, database_count, view_count, error,
                            retval, frm >>

SchemaRoutines == SchemaPart("schema_routines", "routines")
SchemaEvents == SchemaPart("schema_events", "events")

\* DeferIndexes with the ALTER stashed and the block written as it was read
DeferIndexes_block_kept(lines, indexes, constraints) ==
  LET table_ddl == extract_create_table(lines)
      alter_table == split_indexes(table_ddl, constraints)[1]
  IN  IF indexes /\ HasInnoDB(table_ddl) /\ alter_table # NoneLine
      THEN << lines, alter_table >>
      ELSE << lines, NoneLine >>

\* Lines 97-110: the block to write and the ALTER to stash (NoneLine: none)
\* for the lines of a table_definition section: <<table_definition_data, alter>>
DeferIndexes(lines, indexes, constraints) ==
  LET table_definition_data == lines
      table_ddl == extract_create_table(table_definition_data)
      split == split_indexes(table_ddl, constraints)
      alter_table == split[1]
      create_table == split[2]
  IN  IF indexes /\ HasInnoDB(table_ddl) /\ alter_table # NoneLine
      THEN << Replace(table_definition_data, table_ddl, create_table), alter_table >>
      ELSE << table_definition_data, NoneLine >>

\* Lines 93-117
TableDefinition ==
  /\ MoreSections
  /\ \E t \in Tables, shape \in DDLShapes :
       LET sec == TableDefinitionSection(t, shape, NextSerial)
           lines == sec.lines
       IN  \/ NoDb(sec, Len(lines))
           \/ /\ db # UNBOUND
              /\ LET table == extract_identifier(lines[2])
                     name == Path(db, table, ".schema.sql")
                     deferred == DeferIndexes(lines, defer_indexes, defer_constraints)
                     data == chain_header(header, deferred[1])
                 IN  /\ post_data' = IF deferred[2] # NoneLine THEN deferred[2]
                                     ELSE post_data
                     /\ files' = filtered_output(files, regex, cmd, name, data)
                     /\ IF Search(regex, name)
                        THEN /\ writes' = Append(writes,
                                                 Write(sec, name, "wb", data, NoneLine))
                             /\ table_count' = table_count + 1
                        ELSE UNCHANGED << writes, table_count >>
              /\ dump' = Append(dump, sec)
              /\ consumed' = Len(lines)
              /\ UNCHANGED << target, cmd, regex, pc, defer_indexes,
                              defer_constraints, warnings, header, db,
                              database_count, view_count, error, retval, frm >>

\* Lines 122-135: what a table_data section writes, and the ALTER it injects
InjectPostData(lines, pending) ==
  LET data == chain_header(header, lines)
  IN  IF pending # NoneLine
      THEN << data \o << post_data_header, pending, Newline >>, pending >>
      ELSE << data, NoneLine >>

\* drain with the loop over the iterator left out
drain_nothing(iterator) == 0

\* Lines 140-141, 162-163, 167-168: "for line in iterator: pass" takes every
\* line that is left in the iterator; the number of lines taken
drain(iterator) == Len(iterator)

\* clear_post_data with the pending ALTER kept
clear_post_data_kept(pending) == pending

\* Lines 123 and 135: post_data after a table_data section has looked at it
clear_post_data(pending) == IF pending # NoneLine THEN NoneLine ELSE pending

\* Lines 118-141
TableData ==
  /\ MoreSections
  /\ \E t \in Tables :
       LET sec == TableDataSection(t, NextSerial)
           comments == SubSeq(sec.lines, 1, 3)
       IN  \/ NoDb(sec, 3)
           \/ /\ db # UNBOUND
              /\ LET table == extract_identifier(comments[2])
                     name == Path(db, table, ".data.sql")
                     inject == InjectPostData(sec.lines, post_data)
                 IN  /\ post_data' = clear_post_data(post_data)
                     /\ files' = filtered_output(files, regex, cmd, name, inject[1])
                     /\ writes' = IF Search(regex, name)
                                  THEN Append(writes,
                                              Write(sec, name, "wb", inject[1], inject[2]))
                                  ELSE writes
                     /\ consumed' = IF Search(regex, name)
                                    THEN Len(sec.lines)
                                    ELSE 3 + drain(SubSeq(sec.lines, 4, Len(sec.lines)))
              /\ dump' = Append(dump, sec)
              /\ UNCHANGED << target, cmd, regex, pc, defer_indexes,
                              defer_constraints, warnings, header, db,
                              table_count, database_count, view_count, error,
                              retval, frm >>

\* Lines 154-158: the file system after one view section is written
WriteView(fs, name, lines, count) ==
  output(IF count = 0 THEN truncate(fs, name) ELSE fs, cmd, name, lines, "ab")

\* Lines 149-163
View ==
  /\ MoreSections
  /\ \E kind \in {"view_temporary_definition", "view_definition"} :
       LET sec == PlainSection(kind, "v", NextSerial)
       IN  \/ NoDb(sec, 0)
           \/ /\ db # UNBOUND
              /\ LET name == Path(db, "views", ".sql")
                 IN  IF Search(regex, name)
                     THEN /\ files' = WriteView(files, name, sec.lines, view_count)
                          /\ writes' = Append(writes,
                                              Write(sec, name, "ab", sec.lines, NoneLine))
                          /\ view_count' = view_count + 1
                          /\ consumed' = Len(sec.lines)
                     ELSE /\ consumed' = drain(sec.lines)
                          /\ UNCHANGED << files, writes, view_count >>
              /\ dump' = Append(dump, sec)
              /\ UNCHANGED << target, cmd, regex, pc, defer_indexes,
                              defer_constraints, warnings, header, db, post_data,
                              table_count, database_count, error, retval, frm >>

\* Lines 164-168: any other section type is drained
Skip ==
  /\ MoreSections
  /\ \E kind \in {"footer", "unknown"} :
       LET sec == OtherSection(kind, NextSerial)
       IN  /\ dump' = Append(dump, sec)
           /\ consumed' = drain(sec.lines)
  /\ UNCHANGED << target, cmd, regex, pc, defer_indexes, defer_constraints,
                  warnings, header, db, post_data, table_count, database_count,
                  view_count, files, writes, error, retval, frm >>

\* Lines 169-171: the stream has ended
Finish ==
  /\ pc = "loop"
  /\ pc' = "done"
  /\ retval' = 0
  /\ UNCHANGED << target, cmd, regex, defer_indexes, defer_constraints,
                  warnings, header, db, post_data, table_count, database_count,
                  view_count, files, dump, consumed, writes, error, frm >>

Next ==
  \/ Start
  \/ Header
  \/ ReplicationInfo
  \/ Schema
  \/ SchemaRoutines
  \/ SchemaEvents
  \/ TableDefinition
  \/ TableData
  \/ View
  \/ Skip
  \/ Finish

Spec == Init /\ [][Next]_vars

----------------------------------------------------------------------------
(* util.ByteReader: a byte buffer (a sequence of 0..255) and a 0-based cursor. *)
(* Every operation returns [ok, val, pos]: whether it stayed inside the        *)
(* buffer, what it read, and the cursor after it.                              *)

RECURSIVE LE(_, _, _)
\* the little-endian value of the n bytes at 0-based offset at
LE(buf, at, n) == IF n = 0 THEN 0 ELSE buf[at + 1] + 256 * LE(buf, at + 1, n - 1)

InBounds(buf, at, n) == at >= 0 /\ n >= 0 /\ at + n <= Len(buf)

Result(ok, val, pos) == [ok |-> ok, val |-> val, pos |-> pos]

\* uint8_at / uint16_at / uint24_at / uint32_at (n = 1, 2, 3, 4): the read is
\* at off from the start or from the cursor; a read relative to the cursor
\* leaves the cursor past the bytes read.
uint_at(buf, pos, off, whence, n) ==
  LET at == IF whence = "cur" THEN pos + off ELSE off
      ok == InBounds(buf, at, n)
  IN  Result(ok, IF ok THEN LE(buf, at, n) ELSE 0,
             IF whence = "cur" THEN at + n ELSE pos)

\* read(n): n bytes from the cursor, which moves past them
read(buf, pos, n) ==
  LET ok == InBounds(buf, pos, n)
  IN  Result(ok, IF ok THEN SubSeq(buf, pos + 1, pos + n) ELSE << >>, pos + n)

\* read_at(n, off): n bytes at off; the cursor stays
read_at(buf, pos, n, off) ==
  LET ok == InBounds(buf, off, n)
  IN  Result(ok, IF ok THEN SubSeq(buf, off + 1, off + n) ELSE << >>, pos)

\* skip(n)
skip(buf, pos, n) == Result(InBounds(buf, pos, n), << >>, pos + n)

\* bytes_prefix16 / bytes_prefix32 (w = 2, 4): a w-byte length, then that many
\* bytes, from the cursor
bytes_prefix(buf, pos, w) ==
  LET len == uint_at(buf, pos, 0, "cur", w)
      body == read(buf, len.pos, len.val)
  IN  Result(len.ok /\ body.ok, body.val, body.pos)

----------------------------------------------------------------------------
(* Python values of binaryfrm: None, a byte string, or the name of an enum    *)
(* member.                                                                    *)

PyNone == [none |-> TRUE, enum |-> -1, str |-> << >>]
PyBytes(b) == [none |-> FALSE, enum |-> -1, str |-> b]
\* constants.LegacyDBType(n).name
LegacyDBTypeName(n) == [none |-> FALSE, enum |-> n, str |-> << >>]
\* bool(v) of None, of a byte string, of a name
Truthy(v) == ~v.none /\ (v.enum # -1 \/ v.str # << >>)

\* b'partition'
PARTITION == << 112, 97, 114, 116, 105, 116, 105, 111, 110 >>
\* b'InnoDB'
INNODB == << 73, 110, 110, 111, 68, 66 >>

\* bytes.split(sep): the pieces between the separators, one more than there
\* are separators
RECURSIVE Split(_, _)
Split(bytes, sep) ==
  IF \A i \in 1..Len(bytes) : bytes[i] # sep THEN << bytes >>
  ELSE LET i == CHOOSE j \in 1..Len(bytes) :
                   bytes[j] = sep /\ \A k \in 1..(j - 1) : bytes[k] # sep
       IN  << SubSeq(bytes, 1, i - 1) >> \o Split(SubSeq(bytes, i + 1, Len(bytes)), sep)

\* bytes[lo:-cut] (cut >= 0; cut = 0 stands for bytes[lo:])
Slice(bytes, lo, cut) == SubSeq(bytes, lo + 1, Len(bytes) - cut)

\* unpack_column_names
unpack_column_names(names) == Split(Slice(names, 1, 2), 255)

\* unpack_column_labels
unpack_column_labels(labels) ==
  LET groups == Split(Slice(labels, 0, 1), 0)
  IN  [g \in 1..Len(groups) |-> Split(Slice(groups[g], 1, 1), 255)]

\* constants.MySQLType(code).name in ('ENUM', 'SET'), = 'GEOMETRY'
IsEnumOrSet(code) == code \in {247, 248}
IsGeometry(code) == code = 255

\* MySQLVersion.from_version_id
from_version_id(value) ==
  [major |-> value \div 10000, minor |-> (value % 1000) \div 100,
   release |-> value % 100]

\* a bit of constants.HaOption
HasBit(x, bit) == (x \div bit) % 2 = 1

----------------------------------------------------------------------------
(* The .frm files parse() is given: the byte layout of a file from what it    *)
(* holds.                                                                     *)

\* most columns a file declares
MaxCols == 7

RECURSIVE Pow256(_)
Pow256(i) == IF i = 0 THEN 1 ELSE 256 * Pow256(i - 1)
\* v as n little-endian bytes
Bytes(v, n) == [i \in 1..n |-> (v \div Pow256(i - 1)) % 256]
Zeros(n) == [i \in 1..n |-> 0]
\* buf with bytes laid over it from 0-based offset off
Put(buf, off, bytes) ==
  [i \in 1..Len(buf) |->
     IF i > off /\ i <= off + Len(bytes) THEN bytes[i - off] ELSE buf[i]]
RECURSIVE Flatten(_)
Flatten(seqs) == IF seqs = << >> THEN << >> ELSE Head(seqs) \o Flatten(Tail(seqs))

\* The 17 bytes of one column in the metadata section.
ColumnRecord(col) ==
  Zeros(3) \o Bytes(col.length, 2) \o Bytes(col.defaults_offset, 3)
  \o Bytes(col.flags, 2) \o << col.unireg_check, col.charset_hi, col.label_id,
                              col.type_code, col.charset_lo >>
  \o Bytes(col.comment_length, 2)

ColumnOf(type_code, charset_hi, label_id, comment_length) ==
  [length |-> 11, defaults_offset |-> 2, flags |-> 27, unireg_check |-> 4,
   charset_hi |-> charset_hi, label_id |-> label_id, type_code |-> type_code,
   charset_lo |-> 8, comment_length |-> comment_length]

\* The columns of a file are all of one of these kinds: a DECIMAL of a charset
\* above 255, an INT with a comment, an ENUM, a GEOMETRY.
ColumnKinds ==
  { ColumnOf(0, 1, 0, 0), ColumnOf(3, 0, 0, 1), ColumnOf(247, 0, 1, 0),
    ColumnOf(255, 0, 0, 0) }

\* \xff name \xff name ... \xff \x00, the names being a, b, c, ...
NamesSection(n) ==
  << 255 >> \o Flatten([i \in 1..n |-> << 96 + i, 255 >>]) \o << 0 >>

\* one group of two labels for an ENUM, nothing otherwise
LabelsSection(col) ==
  IF IsEnumOrSet(col.type_code) THEN << 255, 120, 255, 121, 255, 0 >> ELSE << >>

\* The extra section: connection, engine, partition_info, each behind its
\* length, and two more bytes.
ExtraSection(x) ==
  IF ~x.present THEN << >>
  ELSE Bytes(Len(x.connection), 2) \o x.connection
       \o Bytes(Len(x.engine), 2) \o x.engine
       \o Bytes(Len(x.partition_info), 4) \o x.partition_info \o << 0, 0 >>

ExtraOf(present, connection, engine, partition_info) ==
  [present |-> present, connection |-> connection, engine |-> engine,
   partition_info |-> partition_info]

ExtraKinds ==
  { ExtraOf(FALSE, << >>, << >>, << >>),
    ExtraOf(TRUE, << >>, << >>, << >>),
    ExtraOf(TRUE, << >>, INNODB, << >>),
    ExtraOf(TRUE, << 120 >>, PARTITION, << 80 >>) }

\* <<legacy_db_type (0x03), default_part_db_type (0x3d)>>
DbTypeKinds == { << 9, 0 >>, << 12, 0 >>, << 20, 12 >>, << 20, 9 >> }

FrmInput(magic, dbtypes, extra, ncols, nnames, col) ==
  [magic |-> magic, dbtypes |-> dbtypes, extra |-> extra, ncols |-> ncols,
   nnames |-> nnames, col |-> col]

\* Files of 0..MaxCols declared columns whose names section holds a name for
\* each, or one name only; and one file that is no .frm.
FrmInputs ==
  { FrmInput(<< 254, 1 >>, t, x, n, m, col) :
      t \in DbTypeKinds, x \in ExtraKinds,
      n \in 0..MaxCols, m \in {"one", "each"}, col \in ColumnKinds }
  \cup { FrmInput(<< 80, 75 >>, << 9, 0 >>, ExtraOf(FALSE, << >>, << >>, << >>),
                  1, "each", ColumnOf(3, 0, 0, 1)) }

NameCount(inp) == IF inp.nnames = "one" THEN 1 ELSE inp.ncols

\* A file is well formed when it names each of its columns (and has one).
WellFormed(inp) ==
  /\ inp.magic = << 254, 1 >>
  /\ inp.ncols >= 1
  /\ NameCount(inp) = inp.ncols

\* The bytes of the file: the 64-byte header, the forminfo pointer, then the
\* keyinfo, defaults, extra, forminfo, metadata, names, labels and comments
\* sections.
FrmFile(inp) ==
  LET keyinfo == << 0, 0 >>
      defaults == << 0, 0, 0 >>
      extra == ExtraSection(inp.extra)
      metadata == Flatten([i \in 1..inp.ncols |-> ColumnRecord(inp.col)])
      names == NamesSection(NameCount(inp))
      labels == LabelsSection(inp.col)
      comments == Flatten([i \in 1..inp.ncols |->
                             [j \in 1..inp.col.comment_length |-> 99]])
      keyinfo_offset == 68
      forminfo_offset == keyinfo_offset + Len(keyinfo) + Len(defaults) + Len(extra)
      head == Put(Put(Put(Put(Put(Put(Put(Zeros(64),
                0, inp.magic),
                3, << inp.dbtypes[1] >>),
                6, Bytes(keyinfo_offset, 2)),
                14, Bytes(Len(keyinfo), 2)),
                16, Bytes(Len(defaults), 2)),
                55, Bytes(Len(extra), 4)),
                61, << inp.dbtypes[2] >>)
      forminfo == Put(Put(Put(Put(Zeros(288),
                    258, Bytes(inp.ncols, 2)),
                    268, Bytes(Len(names), 2)),
                    274, Bytes(Len(labels), 2)),
                    284, Bytes(Len(comments), 2))
  IN  head \o Bytes(forminfo_offset, 4) \o keyinfo \o defaults \o extra
      \o forminfo \o metadata \o names \o labels \o comments

----------------------------------------------------------------------------
(* binaryfrm.parse *)

NoPacked ==
  [count |-> 0, null_count |-> 0, metadata |-> << >>, names |-> << >>,
   labels |-> << >>, comments |-> << >>, defaults |-> << >>,
   keyinfo |-> << >>, extrainfo |-> << >>, forminfo_offset |-> 0]

NoTable ==
  [charset |-> 0, mysql_version |-> from_version_id(0),
   connection |-> PyNone, engine |-> PyNone, partitions |-> PyNone,
   min_rows |-> 0, max_rows |-> 0, avg_row_length |-> 0, row_format |-> 0,
   key_block_size |-> 0, pack_keys |-> -1, stats_persistent |-> -1,
   checksum |-> FALSE, delay_key_write |-> FALSE, comment |-> PyNone]

\* parse(path) is called on the file of inp.
FrmOpen(inp) ==
  [pc |-> "open", inp |-> inp, data |-> FrmFile(inp), packed |-> NoPacked,
   table |-> NoTable, names |-> << >>, labels |-> << >>, mpos |-> 0,
   dpos |-> 0, cpos |-> 0, xpos |-> 0, fieldnr |-> 0, columns |-> << >>,
   reads |-> << >>, error |-> ""]

\* Lines 306-365: the sections of the file, by the offsets of its header
PackedFrmData(data) ==
  LET at(off, n) == uint_at(data, 2, off, "start", n)
      magic == read(data, 0, 2)
      keyinfo_offset == at(6, 2)
      keyinfo_length16 == at(14, 2)
      keyinfo_length32 == at(47, 4)
      keyinfo_length == IF keyinfo_length16.val = 65535 THEN keyinfo_length32
                        ELSE keyinfo_length16
      defaults_offset == keyinfo_offset.val + keyinfo_length.val
      defaults_length == at(16, 2)
      defaults == read_at(data, 2, defaults_length.val, defaults_offset)
      extrainfo_offset == defaults_offset + defaults_length.val
      extrainfo_length == at(55, 4)
      names_length_raw == at(4, 2)
      header_size == 64
      forminfo_offset == at(header_size + names_length_raw.val, 4)
      forminfo_length == 288
      screens_length == at(forminfo_offset.val + 260, 2)
      null_fields == at(forminfo_offset.val + 282, 2)
      column_count == at(forminfo_offset.val + 258, 2)
      names_length == at(forminfo_offset.val + 268, 2)
      labels_length == at(forminfo_offset.val + 274, 2)
      comments_length == at(forminfo_offset.val + 284, 2)
      metadata_offset == forminfo_offset.val + forminfo_length + screens_length.val
      metadata_length == 17 * column_count.val
      metadata == read(data, metadata_offset, metadata_length)
      names == read(data, metadata.pos, names_length.val)
      labels == read(data, names.pos, labels_length.val)
      comments == read(data, labels.pos, comments_length.val)
      keyinfo == read_at(data, 2, keyinfo_length.val, keyinfo_offset.val)
      extrainfo == read_at(data, 2, extrainfo_length.val, extrainfo_offset)
      steps == << magic, keyinfo_offset, keyinfo_length, defaults_length,
                  defaults, extrainfo_length, names_length_raw, forminfo_offset,
                  screens_length, null_fields, column_count, names_length,
                  labels_length, comments_length, metadata, names, labels,
                  comments, keyinfo, extrainfo >>
  IN  [magic |-> magic.val,
       ok |-> \A i \in 1..Len(steps) : steps[i].ok,
       packed |-> [count |-> column_count.val, null_count |-> null_fields.val,
                   metadata |-> metadata.val, names |-> names.val,
                   labels |-> labels.val, comments |-> comments.val,
                   defaults |-> defaults.val, keyinfo |-> keyinfo.val,
                   extrainfo |-> extrainfo.val,
                   forminfo_offset |-> forminfo_offset.val]]

ParseSections ==
  /\ frm.pc = "open"
  /\ LET p == PackedFrmData(frm.data)
     IN  frm' = IF p.magic # << 254, 1 >>
                THEN [frm EXCEPT !.pc = "error", !.error = "IOError EINVAL"]
                ELSE IF ~p.ok
                THEN [frm EXCEPT !.pc = "error", !.error = "OutOfBounds"]
                ELSE [frm EXCEPT !.pc = "from_data", !.packed = p.packed]
  /\ UNCHANGED splitvars

\* ResolveEngine with the two legacy type bytes taken for each other
ResolveEngine_bytes_swapped(data, extrainfo) ==
  LET connection == bytes_prefix(extrainfo, 0, 2)
      engine == bytes_prefix(extrainfo, connection.pos, 2)
      partition_info == bytes_prefix(extrainfo, engine.pos, 4)
      skipped == skip(extrainfo, partition_info.pos, 2)
      present == extrainfo # << >>
      found == IF present THEN PyBytes(engine.val) ELSE PyNone
      resolved ==
        IF ~Truthy(found)
        THEN LegacyDBTypeName(uint_at(data, 2, 61, "start", 1).val)
        ELSE IF found = PyBytes(PARTITION)
        THEN LegacyDBTypeName(uint_at(data, 2, 3, "start", 1).val)
        ELSE found
  IN  [connection |-> IF present THEN PyBytes(connection.val) ELSE PyNone,
       engine |-> resolved,
       partition_info |-> IF present THEN PyBytes(partition_info.val) ELSE PyNone,
       xpos |-> IF present THEN skipped.pos ELSE 0,
       ok |-> ~present \/ (connection.ok /\ engine.ok /\ partition_info.ok
                            /\ skipped.ok)]

\* Lines 107-124: <<connection, engine, partition_info, cursor of extrainfo, ok>>
\* from the extra section, the engine resolved against the header's bytes
ResolveEngine(data, extrainfo) ==
  LET connection == bytes_prefix(extrainfo, 0, 2)
      engine == bytes_prefix(extrainfo, connection.pos, 2)
      partition_info == bytes_prefix(extrainfo, engine.pos, 4)
      skipped == skip(extrainfo, partition_info.pos, 2)
      present == extrainfo # << >>
      found == IF present THEN PyBytes(engine.val) ELSE PyNone
      resolved ==
        IF ~Truthy(found)
        THEN LegacyDBTypeName(uint_at(data, 2, 3, "start", 1).val)
        ELSE IF found = PyBytes(PARTITION)
        THEN LegacyDBTypeName(uint_at(data, 2, 61, "start", 1).val)
        ELSE found
  IN  [connection |-> IF present THEN PyBytes(connection.val) ELSE PyNone,
       engine |-> resolved,
       partition_info |-> IF present THEN PyBytes(partition_info.val) ELSE PyNone,
       xpos |-> IF present THEN skipped.pos ELSE 0,
       ok |-> ~present \/ (connection.ok /\ engine.ok /\ partition_info.ok
                            /\ skipped.ok)]

\* Lines 94-163: Table.from_data
from_data(data, extrainfo) ==
  LET u(off, n) == uint_at(data, 2, off, "start", n).val
      handler_options == u(30, 2)
      e == ResolveEngine(data, extrainfo)
  IN  [ok |-> e.ok, xpos |-> e.xpos,
       table |-> [charset |-> u(38, 1),
                  mysql_version |-> from_version_id(u(51, 4)),
                  connection |-> e.connection,
                  engine |-> e.engine,
                  partitions |-> e.partition_info,
                  min_rows |-> u(22, 4),
                  max_rows |-> u(18, 4),
                  avg_row_length |-> u(34, 4),
                  row_format |-> u(40, 1),
                  key_block_size |-> u(62, 2),
                  pack_keys |-> IF HasBit(handler_options, 1) THEN 1
                                ELSE IF HasBit(handler_options, 128) THEN 0 ELSE -1,
                  stats_persistent |-> IF HasBit(handler_options, 4096) THEN 1
                                       ELSE IF HasBit(handler_options, 8192) THEN 0
                                       ELSE -1,
                  checksum |-> HasBit(handler_options, 32),
                  delay_key_write |-> HasBit(handler_options, 64),
                  comment |-> PyNone]]

\* Line 368
FromData ==
  /\ frm.pc = "from_data"
  /\ LET t == from_data(frm.data, frm.packed.extrainfo)
     IN  frm' = IF ~t.ok
                THEN [frm EXCEPT !.pc = "error", !.error = "OutOfBounds"]
                ELSE [frm EXCEPT !.pc = "unpack_columns", !.table = t.table,
                                 !.xpos = t.xpos]
  /\ UNCHANGED splitvars

\* Lines 242-250: the names and labels unpacked, the readers of the metadata,
\* defaults and comments at their start, the null bitmap read off the defaults
UnpackColumnsStart ==
  /\ frm.pc = "unpack_columns"
  /\ LET null_map == read(frm.packed.defaults, 0,
                          (frm.packed.null_count + 1 + 7) \div 8)
     IN  frm' = IF ~null_map.ok
                THEN [frm EXCEPT !.pc = "error", !.error = "ShortBuffer"]
                ELSE [frm EXCEPT !.pc = "columns",
                                 !.names = unpack_column_names(frm.packed.names),
                                 !.labels = unpack_column_labels(frm.packed.labels),
                                 !.mpos = 0, !.cpos = 0, !.dpos = null_map.pos,
                                 !.fieldnr = 0]
  /\ UNCHANGED splitvars

NoFields ==
  [length |-> 0, flags |-> 0, unireg_check |-> 0, type_code |-> 0,
   label_id |-> 0, defaults_offset |-> 0, comment_length |-> 0,
   charset_hi |-> 0, charset_lo |-> 0, subtype_code |-> 0]

\* metadata.uintN_at(off, os.SEEK_CUR) for each field of fields, in order:
\* st is [ok, pos, reads, val], the state of the metadata reader, the reads it
\* has made and the fields read so far.  Nothing is read once a read has
\* failed.
RECURSIVE ReadFields(_, _, _, _)
ReadFields(st, metadata, fieldnr, fields) ==
  IF fields = << >> \/ ~st.ok THEN st
  ELSE LET f == Head(fields)
           r == uint_at(metadata, st.pos, f.off, "cur", f.n)
       IN  ReadFields([ok |-> r.ok, pos |-> r.pos,
                       reads |-> Append(st.reads,
                                        [fieldnr |-> fieldnr, field |-> f.field,
                                         at |-> st.pos + f.off, from |-> st.pos]),
                       val |-> [st.val EXCEPT ![f.field] = r.val]],
                      metadata, fieldnr, Tail(fields))

Field(field, off, n) == [field |-> field, off |-> off, n |-> n]

\* labels[label_id] of a Python tuple: an index in -len..len-1
ValidIndex(i, len) == -len <= i /\ i < len

\* Lines 253-282: the reads of one column's record and the skip past it
ReadColumn(metadata, labels, mpos, fieldnr) ==
  LET s0 == [ok |-> TRUE, pos |-> mpos, reads |-> << >>, val |-> NoFields]
      s4 == ReadFields(s0, metadata, fieldnr,
                       << Field("length", 3, 2), Field("flags", 8, 2),
                          Field("unireg_check", 10, 1), Field("type_code", 13, 1) >>)
      enum == s4.ok /\ IsEnumOrSet(s4.val.type_code)
      s5 == ReadFields(s4, metadata, fieldnr,
                       IF enum THEN << Field("label_id", 12, 1) >> ELSE << >>)
      label_ok == ~(enum /\ s5.ok) \/ ValidIndex(s5.val.label_id - 1, Len(labels))
      s8 == ReadFields(s5, metadata, fieldnr,
                       << Field("defaults_offset", 5, 3),
                          Field("comment_length", 15, 2) >>
                       \o (IF ~IsGeometry(s4.val.type_code)
                           THEN << Field("charset_hi", 11, 1),
                                   Field("charset_lo", 14, 1) >>
                           ELSE << Field("subtype_code", 14, 1) >>))
      skipped == skip(metadata, s8.pos, 17)
  IN  IF ~label_ok
      THEN [ok |-> FALSE, error |-> "IndexError", pos |-> s5.pos,
            reads |-> s5.reads, val |-> s5.val]
      ELSE [ok |-> s8.ok /\ skipped.ok, error |-> "OutOfBounds",
            pos |-> IF s8.ok THEN skipped.pos ELSE s8.pos,
            reads |-> s8.reads, val |-> s8.val]

\* Lines 252-299: one round of the loop over the names; the Column it yields
UnpackColumn ==
  /\ frm.pc = "columns"
  /\ frm.fieldnr < Len(frm.names)
  /\ LET name == frm.names[frm.fieldnr + 1]
         rec == ReadColumn(frm.packed.metadata, frm.labels, frm.mpos, frm.fieldnr)
         defaults_offset == rec.val.defaults_offset - 1
         charset_id == IF ~IsGeometry(rec.val.type_code)
                       THEN rec.val.charset_hi * 256 + rec.val.charset_lo
                       ELSE 63
         seek_ok == InBounds(frm.packed.defaults, defaults_offset, 0)
         comment == read(frm.packed.comments, frm.cpos, rec.val.comment_length)
         column == [name |-> name, length |-> rec.val.length,
                    type_code |-> rec.val.type_code, charset |-> charset_id,
                    comment |-> comment.val]
     IN  frm' = IF ~rec.ok
                THEN [frm EXCEPT !.pc = "error", !.error = rec.error,
                                 !.mpos = rec.pos, !.reads = @ \o rec.reads]
                ELSE IF ~seek_ok
                THEN [frm EXCEPT !.pc = "error", !.error = "OutOfBounds",
                                 !.mpos = rec.pos, !.reads = @ \o rec.reads]
                ELSE IF ~comment.ok
                THEN [frm EXCEPT !.pc = "error", !.error = "ShortBuffer",
                                 !.mpos = rec.pos, !.reads = @ \o rec.reads]
                ELSE [frm EXCEPT !.mpos = rec.pos, !.reads = @ \o rec.reads,
                                 !.cpos = comment.pos,
                                 !.fieldnr = @ + 1,
                                 !.columns = Append(@, column)]
  /\ UNCHANGED splitvars

\* Lines 370-386: the names are exhausted; the table comment; the Table
ParseReturn ==
  /\ frm.pc = "columns"
  /\ frm.fieldnr = Len(frm.names)
  /\ LET length == uint_at(frm.data, 2, frm.packed.forminfo_offset + 46, "start", 1)
         short == read_at(frm.data, 2, length.val, frm.packed.forminfo_offset + 47)
         long == bytes_prefix(frm.packed.extrainfo, frm.xpos, 2)
         table_comment == IF length.val # 255 THEN short ELSE long
     IN  frm' = IF ~(length.ok /\ table_comment.ok)
                THEN [frm EXCEPT !.pc = "error", !.error = "OutOfBounds"]
                ELSE [frm EXCEPT !.pc = "returned",
                                 !.table.comment =
                                   IF table_comment.val # << >>
                                   THEN PyBytes(table_comment.val) ELSE @]
  /\ UNCHANGED splitvars

InitFrm ==
  /\ SplitIdle
  /\ frm \in { FrmOpen(inp) : inp \in FrmInputs }

NextFrm ==
  \/ ParseSections
  \/ FromData
  \/ UnpackColumnsStart
  \/ UnpackColumn
  \/ ParseReturn

SpecFrm == InitFrm /\ [][NextFrm]_vars

----------------------------------------------------------------------------
(* What the claims about the splitter speak of, read off the dump read so far *)
(* and the calls of output() made so far.                                     *)

Range(seq) == { seq[i] : i \in 1..Len(seq) }
IsPrefix(p, seq) == Len(p) <= Len(seq) /\ SubSeq(seq, 1, Len(p)) = p

\* Section i was handled to its end (the run did not crash in it).
Handled(i) == i \in 1..Len(dump) /\ ~(pc = "crashed" /\ i = Len(dump))
HandledCount == IF pc = "crashed" THEN Len(dump) - 1 ELSE Len(dump)

IsTableKind(kind) == kind \in {"table_definition", "table_data"}
IsViewKind(kind) == kind \in {"view_temporary_definition", "view_definition"}
NeedsDb(kind) ==
  kind \in {"schema_routines", "schema_events", "table_definition", "table_data",
            "view_temporary_definition", "view_definition"}

\* The database named by section i: a schema section's identifier, a header's
\* non-empty "Database: <name>"; UNBOUND when it names none.
DbNamedBy(i) ==
  LET sec == dump[i]
      host == { l \in Range(sec.lines) : l.k = "-- Host: localhost    Database: " }
  IN  IF sec.kind = "schema" THEN sec.lines[2].a
      ELSE IF sec.kind = "header" /\ host # {} /\ (\A l \in host : l.a # "")
      THEN (CHOOSE l \in host : TRUE).a
      ELSE UNBOUND

\* The database of the most recent schema section or header among 1..i.
RECURSIVE DbAfter(_)
DbAfter(i) ==
  IF i = 0 THEN UNBOUND
  ELSE IF DbNamedBy(i) # UNBOUND THEN DbNamedBy(i) ELSE DbAfter(i - 1)

\* The text of the most recent header section before section i.
RECURSIVE HeaderAt(_)
HeaderAt(i) ==
  IF i <= 1 THEN NoHeader
  ELSE IF dump[i - 1].kind = "header" THEN dump[i - 1].lines ELSE HeaderAt(i - 1)

\* The path section i is to be written to.
PathOf(i) ==
  LET kind == dump[i].kind
      d == DbAfter(i)
  IN  CASE kind = "replication_info" -> Path("", "replication_info", ".sql")
        [] kind = "schema" -> Path(d, "create", ".sql")
        [] kind = "schema_routines" -> Path(d, "routines", ".sql")
        [] kind = "schema_events" -> Path(d, "events", ".sql")
        [] kind = "table_definition" -> Path(d, dump[i].lines[2].a, ".schema.sql")
        [] kind = "table_data" -> Path(d, dump[i].lines[2].a, ".data.sql")
        [] IsViewKind(kind) -> Path(d, "views", ".sql")
        [] OTHER -> Path("", "", "")

WritesOf(i) == { j \in 1..Len(writes) : writes[j].sec = i }
IsViewsPath(name) == name.base = "views" /\ name.suffix = ".sql"

\* The clauses of a CREATE TABLE that are to move into the ALTER TABLE: the
\* secondary keys of an InnoDB table when indexes are deferred, and its
\* foreign keys when constraints are.
MovedClauses(stmt) ==
  IF stmt.e = "InnoDB" /\ defer_indexes
  THEN SelectSeq(stmt.c, LAMBDA cl : cl = "KEY" \/ (defer_constraints /\ cl = "FOREIGN KEY"))
  ELSE << >>
KeptClauses(stmt) ==
  IF MovedClauses(stmt) = << >> THEN stmt.c
  ELSE SelectSeq(stmt.c, LAMBDA cl : ~(cl = "KEY" \/ (defer_constraints /\ cl = "FOREIGN KEY")))

\* The CREATE TABLE statement of table_definition section i
StatementOf(i) == CHOOSE l \in Range(dump[i].lines) : l.k = "CREATE TABLE"

\* The ALTER TABLE that table_definition section i gives rise to (NoneLine: none)
ExpectedAlter(i) ==
  IF dump[i].kind = "table_definition" /\ MovedClauses(StatementOf(i)) # << >>
  THEN Line("ALTER TABLE", StatementOf(i).a, "", MovedClauses(StatementOf(i)), 0)
  ELSE NoneLine

\* The lines of section i as they are to appear in its file
ExpectedBody(i) ==
  [k \in 1..Len(dump[i].lines) |->
     IF dump[i].lines[k].k = "CREATE TABLE"
     THEN [dump[i].lines[k] EXCEPT !.c = KeptClauses(dump[i].lines[k])]
     ELSE dump[i].lines[k]]

\* The table_definition sections handled so far that stashed an ALTER
Stashes ==
  { i \in 1..Len(dump) : Handled(i) /\ ExpectedAlter(i) # NoneLine }

\* The output() calls that injected the ALTER stashed by section i: those
\* after it with no other stash in between
Consumers(i) ==
  { j \in 1..Len(writes) :
      /\ writes[j].alter # NoneLine
      /\ writes[j].sec > i
      /\ \A k \in Stashes : ~(i < k /\ k < writes[j].sec) }

\* What follows the lines of a data file: the separator, the ALTER, a newline
AlterTail(w) ==
  IF w.alter # NoneLine THEN << post_data_header, w.alter, Newline >> ELSE << >>

\* Section i is one whose handler writes a file.
ShouldWrite(i) ==
  /\ Handled(i)
  /\ \/ dump[i].kind \in {"replication_info", "schema", "schema_routines", "schema_events"}
     \/ /\ IsTableKind(dump[i].kind) \/ IsViewKind(dump[i].kind)
        /\ Search(regex, PathOf(i))

\* The lines some file holds
LinesOnDisk ==
  UNION { Range(b.data) : b \in UNION { Range(files[f]) : f \in AllFiles } }

----------------------------------------------------------------------------
(* Claims about split_mysqldump, checked under Spec *)

\* C1: every ALTER stashed by a table_definition section for table T is
\* consumed exactly once, and only by a table_data section of table T: it is
\* never injected into the data file of another table, never dropped, and never
\* overwritten by a later table_definition before it is emitted.
C1_PendingAlterConsumedOnce ==
  /\ \A j \in 1..Len(writes) :
       writes[j].alter # NoneLine =>
         /\ writes[j].kind = "table_data"
         /\ writes[j].alter.a = writes[j].name.base
  /\ \A i \in Stashes :
       \/ /\ post_data = ExpectedAlter(i)
          /\ Consumers(i) = {}
          /\ \A k \in Stashes : k <= i
       \/ /\ Cardinality(Consumers(i)) = 1
          /\ \A j \in Consumers(i) : writes[j].alter = ExpectedAlter(i)

\* C2 as claimed: when the run has ended, every section after the header
\* (footer included) is in exactly one output, its lines unchanged and in
\* order but for the deferred clauses of an InnoDB table.
C2_EverySectionWritten ==
  pc = "done" =>
    \A i \in 1..Len(dump) :
      dump[i].kind # "header" =>
        /\ Cardinality(WritesOf(i)) = 1
        /\ \A j \in WritesOf(i) :
             writes[j].data =
               (IF IsViewKind(dump[i].kind) THEN << >> ELSE HeaderAt(i))
               \o ExpectedBody(i) \o AlterTail(writes[j])

\* C2 as amended: exactly the sections whose handler writes (replication_info,
\* schema, schema_routines, schema_events, and the table and view sections whose
\* path the regex matches) are handed to output(), once each and in input order;
\* what is handed over is the header (not for views.sql), then the section's
\* lines unchanged and in order but for the deferred clauses of an InnoDB
\* CREATE TABLE, then, in a data file with an ALTER pending, the separator, the
\* ALTER and a newline; and the file last written under a path ends with what
\* was handed over.  Header, footer, unknown and excluded sections are in no
\* call.
C2_WrittenSectionsVerbatim ==
  /\ \A i \in 1..Len(dump) :
       Cardinality(WritesOf(i)) = IF ShouldWrite(i) THEN 1 ELSE 0
  /\ \A j \in 1..Len(writes) :
       LET w == writes[j]
           i == w.sec
           f == File(w.name, cmd_to_ext(cmd))
       IN  /\ i \in 1..Len(dump)
           /\ w.kind = dump[i].kind
           /\ w.name = PathOf(i)
           /\ w.data = (IF IsViewKind(w.kind) THEN << >> ELSE HeaderAt(i))
                       \o ExpectedBody(i) \o AlterTail(w)
           /\ w.alter # NoneLine => w.kind = "table_data"
           /\ j > 1 => writes[j - 1].sec < i
           /\ (\A k \in (j + 1)..Len(writes) : writes[k].name # w.name) =>
                /\ files[f] # << >>
                /\ files[f][Len(files[f])] = [filter |-> cmd, data |-> w.data]

\* C2's case: a run that ended after writing an InnoDB table whose keys were
\* deferred, its data with the ALTER, and a view, and after draining a footer.
C2_Witness ==
  /\ pc = "done"
  /\ \E j \in 1..Len(writes) :
       writes[j].kind = "table_definition" /\ ExpectedAlter(writes[j].sec) # NoneLine
  /\ \E j \in 1..Len(writes) : writes[j].alter # NoneLine
  /\ \E i \in 1..Len(dump) : dump[i].kind = "footer"

IsHeaderLine(l) ==
  l.k \in {"-- MySQL dump", "-- Host: localhost    Database: ", "-- Server version"}

\* C3: what is written to any file but views.sql begins with the header text
\* captured from the dump's header section, and so does the file; nothing
\* written to views.sql holds the header.
C3_HeaderPrepended ==
  /\ \A j \in 1..Len(writes) :
       IF IsViewsPath(writes[j].name)
       THEN \A l \in Range(writes[j].data) : ~IsHeaderLine(l)
       ELSE /\ HeaderAt(writes[j].sec) # NoHeader
            /\ IsPrefix(HeaderAt(writes[j].sec), writes[j].data)
  /\ \A f \in AllFiles : \A b \in Range(files[f]) :
       b # StaleBlob =>
         IF IsViewsPath(f.name)
         THEN \A l \in Range(b.data) : ~IsHeaderLine(l)
         ELSE \E i \in 1..Len(dump) :
                dump[i].kind = "header" /\ IsPrefix(dump[i].lines, b.data)

\* C3's case: a file other than views.sql and a views.sql have been written.
C3_Witness ==
  /\ \E j \in 1..Len(writes) : writes[j].kind = "table_data"
  /\ \E j \in 1..Len(writes) : writes[j].kind = "replication_info"
  /\ \E j \in 1..Len(writes) : IsViewsPath(writes[j].name)

\* C4: the first view section written to a views.sql path truncates the file
\* and the later ones append, per database: a views.sql that was written holds
\* the view sections of this run for its database, and nothing from before.
C4_ViewsHoldOnlyThisRun ==
  \A j \in 1..Len(writes) :
    IsViewsPath(writes[j].name) =>
      LET f == File(writes[j].name, cmd_to_ext(cmd))
          mine == SelectSeq(writes, LAMBDA w : w.name = writes[j].name)
      IN  /\ StaleBlob \notin Range(files[f])
          /\ files[f] = [k \in 1..Len(mine) |-> [filter |-> cmd, data |-> mine[k].data]]

KnownTarget == target \in {"5.5", "5.6", "5.7"}

\* C5: defer_indexes is true exactly for the targets 5.5, 5.6 and 5.7 and
\* defer_constraints exactly for 5.6 and 5.7; any other target logs a warning,
\* and then every table_definition block is written verbatim, no ALTER is ever
\* pending, and no file holds an ALTER.
C5_TargetDecidesDeferral ==
  pc # "start" =>
    /\ defer_indexes = KnownTarget
    /\ defer_constraints = (target \in {"5.6", "5.7"})
    /\ (warnings # << >>) = ~KnownTarget
    /\ ~KnownTarget =>
         /\ post_data = NoneLine
         /\ \A j \in 1..Len(writes) :
              /\ writes[j].alter = NoneLine
              /\ writes[j].kind = "table_definition" =>
                   writes[j].data = HeaderAt(writes[j].sec) \o dump[writes[j].sec].lines
         /\ \A l \in LinesOnDisk : l.k # "ALTER TABLE"
         /\ \A i \in 1..Len(dump) :
              /\ Handled(i) /\ dump[i].kind = "table_definition"
              /\ Search(regex, PathOf(i))
              /\ \A k \in (i + 1)..Len(dump) : Handled(k) => PathOf(k) # PathOf(i)
              => \A l \in Range(dump[i].lines) : l \in LinesOnDisk

\* C5's case: under an unknown target, an InnoDB table with a secondary key
\* and then its data have been written.
C5_Witness ==
  /\ ~KnownTarget
  /\ \E j \in 1..Len(writes) :
       /\ writes[j].kind = "table_definition"
       /\ "KEY" \in Range(StatementOf(writes[j].sec).c)
       /\ StatementOf(writes[j].sec).e = "InnoDB"
       /\ \E k \in (j + 1)..Len(writes) :
            writes[k].kind = "table_data" /\ writes[k].name.base = writes[j].name.base

\* A table section whose path the regex does not match
Excluded(i) ==
  Handled(i) /\ IsTableKind(dump[i].kind) /\ ~Search(regex, PathOf(i))

\* The ALTER pending after sections 1..i when every one of them is handled the
\* same whether or not its file is written
RECURSIVE PendingAfter(_)
PendingAfter(i) ==
  IF i = 0 THEN NoneLine
  ELSE IF ExpectedAlter(i) # NoneLine THEN ExpectedAlter(i)
  ELSE IF dump[i].kind = "table_data" THEN NoneLine
  ELSE PendingAfter(i - 1)

\* C6: a table_definition or table_data section whose path the regex does not
\* match is written to no file and does not count as a table, yet all of its
\* lines are consumed and what follows is processed as if it had been written;
\* table_count is the number of table_definition sections whose file was
\* written.
C6_ExcludedSectionsDrained ==
  /\ \A i \in 1..Len(dump) :
       Excluded(i) =>
         /\ WritesOf(i) = {}
         /\ \A l \in LinesOnDisk : l.n # i
  /\ table_count =
       Cardinality({ i \in 1..Len(dump) :
                       /\ Handled(i) /\ dump[i].kind = "table_definition"
                       /\ Search(regex, PathOf(i)) })
  /\ Handled(Len(dump)) => consumed = Len(dump[Len(dump)].lines)
  /\ post_data = PendingAfter(HandledCount)
  /\ \A i \in 1..Len(dump) :
       Handled(i) /\ ~IsTableKind(dump[i].kind) => ShouldWrite(i) = (WritesOf(i) # {})

\* C6's case: the run ended after an excluded table_definition, an excluded
\* table_data, and a section written after them.
C6_Witness ==
  /\ pc = "done"
  /\ \E i, j, k \in 1..Len(dump) :
       /\ i < j /\ j < k
       /\ Excluded(i) /\ dump[i].kind = "table_definition"
       /\ Excluded(j) /\ dump[j].kind = "table_data"
       /\ WritesOf(k) # {}

\* C7: a section that needs the database and arrives before a header with a
\* non-empty "Database: <name>" or a schema section has set one ends the run
\* with a NoDatabase error that names the section kind, and nothing is written
\* for it; once a database is set, every section uses the database of the most
\* recent schema section or header.
C7_NoDatabaseIsFatal ==
  /\ \A i \in 1..Len(dump) :
       NeedsDb(dump[i].kind) /\ DbAfter(i) = UNBOUND =>
         /\ pc = "crashed" /\ i = Len(dump)
         /\ error.exc = "NoDatabase"
         /\ error.section = dump[i].kind
         /\ WritesOf(i) = {}
  /\ pc # "crashed" => error = NoError
  /\ pc \in {"loop", "done"} => db = DbAfter(Len(dump))
  /\ \A j \in 1..Len(writes) : writes[j].name = PathOf(writes[j].sec)

----------------------------------------------------------------------------
(* Claims about binaryfrm.parse, checked under SpecFrm *)

\* parse() has come to its end on the file
ParseEnded == frm.pc \in {"returned", "error"}
\* Table.from_data has returned the table
TableBuilt == frm.pc \in {"unpack_columns", "columns", "returned"}

\* C8: for every well-formed .frm file, parse() produces as many Column
\* records as the column_count of the header says, and the metadata slice has
\* 17 bytes for each.
C8_ColumnCountMatches ==
  ParseEnded /\ WellFormed(frm.inp) =>
    /\ frm.pc = "returned"
    /\ Len(frm.columns) = frm.packed.count
    /\ frm.packed.count = frm.inp.ncols
    /\ Len(frm.packed.metadata) = 17 * frm.packed.count

\* The engine the claim's order gives a file, from what the file holds; the
\* engine string counts as absent when empty_is_absent and it is empty.
EngineByOrder(inp, empty_is_absent) ==
  IF ~inp.extra.present \/ (empty_is_absent /\ inp.extra.engine = << >>)
  THEN LegacyDBTypeName(inp.dbtypes[1])
  ELSE IF inp.extra.engine = PARTITION
  THEN LegacyDBTypeName(inp.dbtypes[2])
  ELSE PyBytes(inp.extra.engine)

ExtraPreserved ==
  /\ frm.table.partitions =
       IF frm.inp.extra.present THEN PyBytes(frm.inp.extra.partition_info) ELSE PyNone
  /\ frm.table.connection =
       IF frm.inp.extra.present THEN PyBytes(frm.inp.extra.connection) ELSE PyNone

\* C9 as claimed: the engine is LegacyDBType(u8 at 0x03).name when extrainfo
\* is empty, LegacyDBType(u8 at 0x3D).name when the engine string is
\* "partition" (the partition clause kept), and the engine string unchanged
\* otherwise; with extrainfo empty, connection and partition_info are absent.
C9_EngineAbsentOnlyWhenNoExtra ==
  TableBuilt =>
    /\ frm.table.engine = EngineByOrder(frm.inp, FALSE)
    /\ ExtraPreserved

\* C9 as amended: the engine is LegacyDBType(u8 at 0x03).name when the engine
\* string is absent (extrainfo empty) or empty, LegacyDBType(u8 at 0x3D).name
\* when it is "partition" (the partition clause kept), and the engine string
\* unchanged otherwise; with extrainfo empty, connection and partition_info are
\* absent.
C9_EngineResolutionOrder ==
  TableBuilt =>
    /\ frm.table.engine = EngineByOrder(frm.inp, TRUE)
    /\ ExtraPreserved

\* C9's case: the table has been built from a file whose engine string is
\* "partition", whose two type bytes differ and whose partition clause is kept.
C9_Witness ==
  /\ TableBuilt
  /\ frm.inp.extra.engine = PARTITION
  /\ frm.inp.dbtypes[1] # frm.inp.dbtypes[2]
  /\ frm.table.engine = LegacyDBTypeName(frm.inp.dbtypes[2])
  /\ frm.table.partitions = PyBytes(frm.inp.extra.partition_info)

\* where a field lies in the 17-byte record of a column
FieldOffset(field) ==
  CASE field = "length" -> 3
    [] field = "defaults_offset" -> 5
    [] field = "flags" -> 8
    [] field = "unireg_check" -> 10
    [] field = "charset_hi" -> 11
    [] field = "label_id" -> 12
    [] field = "type_code" -> 13
    [] field \in {"charset_lo", "subtype_code"} -> 14
    [] field = "comment_length" -> 15

\* C10: every field of the i-th column is read from the 17-byte record that
\* starts at metadata offset 17*i, the reads leave the cursor where the record
\* starts, and after k columns the cursor is at 17*k.
C10_FieldsReadFromRecord ==
  /\ \A j \in 1..Len(frm.reads) :
       /\ frm.reads[j].from = 17 * frm.reads[j].fieldnr
       /\ frm.reads[j].at = 17 * frm.reads[j].fieldnr + FieldOffset(frm.reads[j].field)
  /\ frm.pc = "columns" => frm.mpos = 17 * frm.fieldnr

----------------------------------------------------------------------------
(* Claims about the order of the splitter's work, checked under Spec *)

\* The iterator of the last section read has no line left.
LastConsumed == dump # << >> => consumed = Len(dump[Len(dump)].lines)

\* Every section that needs the database comes after a schema section or a
\* header that names one.
WellFormedStream ==
  \A i \in 1..Len(dump) : NeedsDb(dump[i].kind) => DbAfter(i) # UNBOUND

\* One step of the driver as the claim has it.
InOrderStep ==
  /\ dump' # dump =>
       /\ pc = "loop"
       /\ LastConsumed
       /\ Len(dump') = Len(dump) + 1
       /\ SubSeq(dump', 1, Len(dump)) = dump
       /\ \A l \in Range(dump'[Len(dump')].lines) : l.n = Len(dump')
       /\ pc' # "crashed" => LastConsumed'
  /\ writes' # writes =>
       /\ Len(writes') = Len(writes) + 1
       /\ SubSeq(writes', 1, Len(writes)) = writes
       /\ writes'[Len(writes')].sec = Len(dump')
       /\ dump' # dump
  /\ pc' = "done" /\ pc # "done" =>
       /\ pc = "loop" /\ LastConsumed
       /\ dump' = dump /\ writes' = writes
       /\ retval' = 0 /\ error' = NoError
  /\ pc' = "crashed" /\ pc # "crashed" => ~WellFormedStream'
  /\ pc = "loop" /\ WellFormedStream' => pc' \in {"loop", "done"}

\* C11: the driver handles the sections in the order the tokenizer yields
\* them, and on every branch (written, excluded by the regex, unknown or
\* footer) it has taken every line of the current section before it asks for
\* the next section; when a well-formed stream ends, the driver goes on to the
\* summary and returns 0.
C11_SectionsConsumedInOrder ==
  /\ [](pc = "loop" => ENABLED Finish)
  /\ [](pc = "done" => retval = 0 /\ LastConsumed /\ WellFormedStream)
  /\ [][InOrderStep]_vars

\* C11's case: a well-formed stream has ended with 0 returned after a section
\* that was written, a table section the regex excluded and a footer or
\* unknown section, the drained sections each followed by another section.
C11_Witness ==
  /\ pc = "done" /\ retval = 0
  /\ \E i, j, k \in 1..Len(dump) :
       /\ i < Len(dump) /\ j < Len(dump)
       /\ Excluded(i) /\ dump[i].kind = "table_data"
       /\ dump[j].kind \in {"footer", "unknown"}
       /\ WritesOf(k) # {}

----------------------------------------------------------------------------
(* Claims about the pending ALTER and the regex, checked under Spec *)

\* The ALTER TABLE lines among the lines handed to one output() call
AlterLinesOf(w) == { k \in 1..Len(w.data) : w.data[k].k = "ALTER TABLE" }

\* C12: after a table_data section is handled no ALTER is pending, whether or
\* not the path of its data file matched the regex; when the path does not
\* match, the ALTER that was pending is written to no file; and a
\* table_definition stashes its ALTER even when the regex excludes its own
\* schema file.
C12_PendingAlterClearedByTableData ==
  /\ HandledCount >= 1 /\ dump[HandledCount].kind = "table_data" =>
       post_data = NoneLine
  /\ HandledCount >= 1 /\ ExpectedAlter(HandledCount) # NoneLine =>
       post_data = ExpectedAlter(HandledCount)
  /\ \A i \in 1..Len(dump) :
       Handled(i) /\ dump[i].kind = "table_data" /\ ~Search(regex, PathOf(i)) =>
         WritesOf(i) = {}
  /\ \A j \in 1..Len(writes) :
       LET w == writes[j]
       IN  /\ w.alter = IF w.kind = "table_data" THEN PendingAfter(w.sec - 1)
                        ELSE NoneLine
           /\ IsTableKind(w.kind) => Search(regex, w.name)
           /\ AlterLinesOf(w) =
                IF w.alter # NoneLine THEN { Len(w.data) - 1 } ELSE {}
           /\ w.alter # NoneLine => w.data[Len(w.data) - 1] = w.alter
  /\ \A f \in AllFiles : \A b \in Range(files[f]) :
       b # StaleBlob => \E j \in 1..Len(writes) :
                          /\ File(writes[j].name, cmd_to_ext(cmd)) = f
                          /\ b = [filter |-> cmd, data |-> writes[j].data]

\* C12's case: the regex excluded the schema file of a table_definition that
\* stashed an ALTER and then the data file of the table_data section after it,
\* which has been handled.
C12_Witness ==
  /\ HandledCount >= 3
  /\ Excluded(HandledCount - 1) /\ Excluded(HandledCount)
  /\ ExpectedAlter(HandledCount - 1) # NoneLine
  /\ dump[HandledCount].kind = "table_data"
  /\ post_data = NoneLine
  /\ \A j \in 1..Len(writes) : writes[j].alter = NoneLine

====
